---- MODULE Spec2Model ----
(***************************************************************************)
(* The indicator-observation query and aggregation engine of wa_plus:      *)
(* DataService.get_timeseries_data and DataService.get_summary_data        *)
(* (src/deci_sgwa/src/services/data_service.py) over the observation table *)
(* indicator_timeseries, with the route handlers that forward to them.     *)
(*                                                                         *)
(* Timestamps are calendar dates written YYYYMMDD as integers, so that     *)
(* integer order is date order.  SQL NULL is NULL (integer columns),       *)
(* NULLTEXT (text columns) and NULLF (float columns); a float is the       *)
(* reduced fraction <<numerator, denominator>>.                            *)
(***************************************************************************)
EXTENDS Integers, Sequences, FiniteSets, TLC

VARIABLES
    indicator_timeseries, \* the observation table: row i has primary key i
    call,                 \* the arguments of the latest request
    outcome,              \* "none" | "ok" | "invalid" | "store_error"
    result,               \* the sequence of records the latest request returned
    store_reads,          \* reads of the observation table issued by the latest request
    status,               \* HTTP status of the latest request (0: no HTTP layer)
    prev,                 \* history: what the preceding request returned, when it had the same arguments
    store_fault,          \* "none", or the read that the store fails: "catalog" | "observations"
    store_log,            \* the tables the latest request read, in order
    sessions,             \* per request: where get_async_db_session stands, and what happened to its session
    users,                \* the user table: row i has primary key i
    login,                \* the latest authenticate_user call and what it did
    categories,           \* the unit_of_measurement_categories table
    creates               \* per request: where a create-category request stands

vars == <<indicator_timeseries, call, outcome, result, store_reads, status, prev,
          store_fault, store_log, sessions, users, login, categories, creates>>

\* the state of the query engine and of its store, and the state outside it
engine_vars == <<indicator_timeseries, call, outcome, result, store_reads, status, prev,
                 store_fault, store_log>>
session_vars == <<sessions>>
auth_vars == <<users, login>>
uom_vars == <<categories, creates>>
outside_engine == <<session_vars, auth_vars, uom_vars>>
outside_sessions == <<engine_vars, auth_vars, uom_vars>>
outside_auth == <<engine_vars, session_vars, uom_vars>>
outside_uom == <<engine_vars, session_vars, auth_vars>>

\* ------------------------------------------------------------------ bounds

MaxObs == 2
MaxRequests == 2
MaxExecutes == 1

\* ------------------------------------------------------------------ NULLs

NULL == -1
NULLTEXT == "NULL"
NULLF == <<>>

\* ------------------------------------------------------------------ floats

RECURSIVE GCD(_, _)
GCD(a, b) == IF b = 0 THEN a ELSE GCD(b, a % b)

Float(n) == <<n, 1>>
Frac(n, d) == LET g == GCD(n, d) IN <<n \div g, d \div g>>

RECURSIVE SumOf(_, _)
\* the sum of f[x] over the finite set S
SumOf(f, S) == IF S = {} THEN 0
               ELSE LET x == CHOOSE y \in S : TRUE IN f[x] + SumOf(f, S \ {x})

\* ------------------------------------------------------------------ reference tables

indicator_definitions ==
    { [id |-> 1, code |-> "PRECIP",  name_en |-> "Precipitation",   unit_of_measurement_id |-> 1],
      [id |-> 2, code |-> "Q_RIVER", name_en |-> "River Discharge", unit_of_measurement_id |-> NULL] }

unit_of_measurements == { [id |-> 1, abbreviation |-> "mm"] }

reporting_units ==
    { [id |-> 101, name |-> "Upper Blue"], [id |-> 102, name |-> "Lower Blue"] }

\* Infrastructure.name is indexed, not unique
infrastructures ==
    { [id |-> 501, name |-> "Blue Grand Dam"], [id |-> 502, name |-> "Blue Grand Dam"] }

temporal_resolutions == { [id |-> 1, name |-> "Daily"], [id |-> 2, name |-> "Monthly"] }

data_quality_flags == { [id |-> 1, name |-> "Measured"] }

\* the collation order of the indicator codes (ORDER BY IndicatorDefinition.code)
CodeOrder == <<"PRECIP", "Q_RIVER">>
CodeRank(c) == CHOOSE i \in 1..Len(CodeOrder) : CodeOrder[i] = c

\* ------------------------------------------------------------------ calendar

\* a truncation that keeps the day of the month
DateTruncMonthKeepsDay(t) == t

\* date_trunc('month', t) and date_trunc('year', t) on YYYYMMDD dates
DateTruncMonth(t) == (t \div 100) * 100 + 1
DateTruncYear(t) == (t \div 10000) * 10000 + 101

\* str.lower() on the granularity names a request may carry
Lower(s) ==
    CASE s = "Monthly"  -> "monthly"
      [] s = "MONTHLY"  -> "monthly"
      [] s = "Annual"   -> "annual"
      [] s = "Seasonal" -> "seasonal"
      [] s = "Weekly"   -> "weekly"
      [] OTHER          -> s

\* ------------------------------------------------------------------ the observation table

\* create_indicator_timeseries_entry: one more row, its primary key the next integer
NewObservation(o) == [o EXCEPT !.id = Len(indicator_timeseries) + 1]

Observations(store) == {store[k] : k \in 1..Len(store)}

\* ------------------------------------------------------------------ joins

NullNamed == [id |-> NULL, name |-> NULLTEXT]
NullUnit == [id |-> NULL, abbreviation |-> NULLTEXT]

\* JOIN table ON key = table.id, isouter=False
InnerJoin(table, key) == {r \in table : r.id = key}

\* an outer join that drops the rows that match nothing
OuterJoinDropsUnmatched(table, key, nullrow) == InnerJoin(table, key)

\* JOIN table ON key = table.id, isouter=True: the all-NULL row when nothing matches
OuterJoin(table, key, nullrow) ==
    IF InnerJoin(table, key) = {} THEN {nullrow} ELSE InnerJoin(table, key)

\* the joins of get_timeseries_data: observation o with its indicator definition
\* d, unit u, reporting unit r, infrastructure i, temporal resolution t and
\* quality flag q
TimeseriesJoins(store) ==
    UNION { UNION { { [o |-> o, d |-> d, u |-> u, r |-> r, i |-> i, t |-> t, q |-> q] :
                        u \in OuterJoin(unit_of_measurements, d.unit_of_measurement_id, NullUnit),
                        r \in OuterJoin(reporting_units, o.reporting_unit_id, NullNamed),
                        i \in OuterJoin(infrastructures, o.infrastructure_id, NullNamed),
                        t \in OuterJoin(temporal_resolutions, o.temporal_resolution_id, NullNamed),
                        q \in OuterJoin(data_quality_flags, o.quality_flag_id, NullNamed) } :
                    d \in InnerJoin(indicator_definitions, o.indicator_definition_id) } :
            o \in Observations(store) }

\* the joins of get_summary_data: the location tables are joined (inner) only
\* when their id list was supplied, reporting units first
SummaryLocationTable(a) ==
    IF a.reporting_unit_ids # {} THEN "reporting_unit"
    ELSE IF a.infrastructure_ids # {} THEN "infrastructure"
    ELSE "none"

\* a summary that always joins the reporting units (inner)
SummaryLocationsAlwaysUnits(o, a) == InnerJoin(reporting_units, o.reporting_unit_id)

\* the location row joined to observation o by get_summary_data
SummaryLocations(o, a) ==
    CASE SummaryLocationTable(a) = "reporting_unit" -> InnerJoin(reporting_units, o.reporting_unit_id)
      [] SummaryLocationTable(a) = "infrastructure" -> InnerJoin(infrastructures, o.infrastructure_id)
      [] OTHER -> {NullNamed}

SummaryJoins(store, a) ==
    UNION { UNION { { [o |-> o, d |-> d, u |-> u, l |-> l] :
                        u \in OuterJoin(unit_of_measurements, d.unit_of_measurement_id, NullUnit),
                        l \in SummaryLocations(o, a) } :
                    d \in InnerJoin(indicator_definitions, o.indicator_definition_id) } :
            o \in Observations(store) }

\* ------------------------------------------------------------------ Catalog Resolver

\* a lookup that resolves nothing unless every code is in the catalog
ResolveIdsAllOrNothing(codes) ==
    IF \A c \in codes : \E x \in indicator_definitions : x.code = c
    THEN {x.id : x \in {y \in indicator_definitions : y.code \in codes}}
    ELSE {}

\* select(IndicatorDefinition.id).where(IndicatorDefinition.code.in_(codes))
ResolveIds(codes) == {d.id : d \in {x \in indicator_definitions : x.code \in codes}}

\* ------------------------------------------------------------------ Filter Composer

\* a window that leaves its end out
BetweenHalfOpen(t, lo, hi) == lo <= t /\ t < hi

\* IndicatorTimeseries.timestamp.between(start_date, end_date)
Between(t, lo, hi) == lo <= t /\ t <= hi

\* get_timeseries_data: location_filters, one per id list that is not empty
LocationFilters(a) ==
    (IF a.reporting_unit_ids # {} THEN {"reporting_unit"} ELSE {})
        \cup (IF a.infrastructure_ids # {} THEN {"infrastructure"} ELSE {})

FilterHolds(f, o, a) ==
    CASE f = "reporting_unit" -> o.reporting_unit_id \in a.reporting_unit_ids
      [] f = "infrastructure" -> o.infrastructure_id \in a.infrastructure_ids

\* and_ in place of or_ over the location filters
LocationConditionConjunctive(o, a) ==
    \A f \in LocationFilters(a) : FilterHolds(f, o, a)

\* if location_filters: conditions.append(or_(*location_filters))
LocationCondition(o, a) ==
    LocationFilters(a) # {} => \E f \in LocationFilters(a) : FilterHolds(f, o, a)

\* a resolution filter that lets the rows without a resolution through
ResolutionConditionKeepsUnresolved(t, a) ==
    a.temporal_resolution_name # NULLTEXT
        => (t.name = NULLTEXT \/ t.name = a.temporal_resolution_name)

\* if temporal_resolution_name: TemporalResolution.name == temporal_resolution_name
ResolutionCondition(t, a) ==
    a.temporal_resolution_name # NULLTEXT => t.name = a.temporal_resolution_name

\* and_(*conditions) of get_timeseries_data on a joined row j
TimeseriesConditions(j, a) ==
    /\ j.o.indicator_definition_id \in ResolveIds(a.indicator_definition_codes)
    /\ Between(j.o.timestamp, a.start_date, a.end_date)
    /\ LocationCondition(j.o, a)
    /\ ResolutionCondition(j.t, a)

TimeseriesMatches(store, a) == {j \in TimeseriesJoins(store) : TimeseriesConditions(j, a)}

\* get_summary_data: the if / elif on the two id lists
SummaryLocationCondition(o, a) ==
    CASE SummaryLocationTable(a) = "reporting_unit" -> o.reporting_unit_id \in a.reporting_unit_ids
      [] SummaryLocationTable(a) = "infrastructure" -> o.infrastructure_id \in a.infrastructure_ids
      [] OTHER -> TRUE

SummaryConditions(j, a) ==
    /\ j.o.indicator_definition_id \in ResolveIds(a.indicator_definition_codes)
    /\ Between(j.o.timestamp, a.start_date, a.end_date)
    /\ SummaryLocationCondition(j.o, a)

SummaryMatches(store, a) == {j \in SummaryJoins(store, a) : SummaryConditions(j, a)}


\* ------------------------------------------------------------------ Aggregation Planner

\* a chain that compares aggregate_to itself, without lower()
TruncFieldCaseSensitive(a) ==
    CASE a.aggregate_to = "Monthly" -> "month"
      [] a.aggregate_to = "Annual" -> "year"
      [] OTHER -> "none"

\* the if / elif chain on aggregate_to.lower(): the date_trunc field, or "none"
\* (aggregate_to absent, "seasonal": pass, or any other name)
TruncField(a) ==
    IF a.aggregate_to = NULLTEXT THEN "none"
    ELSE CASE Lower(a.aggregate_to) = "monthly" -> "month"
           [] Lower(a.aggregate_to) = "annual" -> "year"
           [] OTHER -> "none"

DateTrunc(field, t) ==
    CASE field = "month" -> DateTruncMonth(t)
      [] field = "year" -> DateTruncYear(t)

\* the values SQL aggregates see: those of the rows whose value_numeric is not NULL
NonNull(J) == {j \in J : j.o.value_numeric # NULLF}
Numerators(J) == [j \in J |-> j.o.value_numeric[1]]

\* an average that divides by the number of rows, NULL values included
AvgOverAllRows(J) ==
    IF NonNull(J) = {} THEN NULLF
    ELSE Frac(SumOf(Numerators(NonNull(J)), NonNull(J)), Cardinality(J))

\* func.avg, func.sum, func.min, func.max, func.count over the joined rows J
\* (stored values are whole numbers, so their denominators are 1)
Avg(J) ==
    IF NonNull(J) = {} THEN NULLF
    ELSE Frac(SumOf(Numerators(NonNull(J)), NonNull(J)), Cardinality(NonNull(J)))

Sum(J) ==
    IF NonNull(J) = {} THEN NULLF
    ELSE Float(SumOf(Numerators(NonNull(J)), NonNull(J)))

Min(J) ==
    IF NonNull(J) = {} THEN NULLF
    ELSE Float(CHOOSE v \in {j.o.value_numeric[1] : j \in NonNull(J)} :
                   \A w \in {j.o.value_numeric[1] : j \in NonNull(J)} : v <= w)

Max(J) ==
    IF NonNull(J) = {} THEN NULLF
    ELSE Float(CHOOSE v \in {j.o.value_numeric[1] : j \in NonNull(J)} :
                   \A w \in {j.o.value_numeric[1] : j \in NonNull(J)} : v >= w)

Count(J) == Float(Cardinality(NonNull(J)))

\* the keys of agg_func_map
AggFuncMap == {"Average", "Sum", "Min", "Max", "Count", "LatestValue"}

\* func.last_value is a window function: without OVER the store rejects the query
StoreRejects(method) == method = "LatestValue"

\* a reduction that ignores the method and averages, as the time-series path does
SelectedAggFuncAverageOnly(method, J) == Avg(J)

\* selected_agg_func = agg_func_map[aggregation_method], applied to value_numeric
SelectedAggFunc(method, J) ==
    CASE method = "Average" -> Avg(J)
      [] method = "Sum" -> Sum(J)
      [] method = "Min" -> Min(J)
      [] method = "Max" -> Max(J)
      [] method = "Count" -> Count(J)

\* ------------------------------------------------------------------ Query Assembler

\* fields_to_select of the raw plan; src (not a field of the program's record)
\* names the observations the record was made from
RawRecord(j) ==
    [timestamp |-> j.o.timestamp,
     value |-> j.o.value_numeric,
     value_text |-> j.o.value_text,
     indicator_code |-> j.d.code,
     indicator_name |-> j.d.name_en,
     unit |-> j.u.abbreviation,
     reporting_unit_name |-> j.r.name,
     infrastructure_name |-> j.i.name,
     source_temporal_resolution |-> j.t.name,
     quality_flag |-> j.q.name,
     src |-> {j.o.id}]

\* group_by_fields of the aggregated plan
TimeseriesGroupKey(j, field) ==
    <<DateTrunc(field, j.o.timestamp), j.d.code, j.d.name_en, j.u.abbreviation,
      j.r.name, j.i.name>>

\* an aggregated record whose aggregation_level is the lower-cased granularity
AggregatedRecordLowerCased(k, G, a) ==
    [timestamp |-> k[1],
     value |-> Avg(G),
     indicator_code |-> k[2],
     indicator_name |-> k[3],
     unit |-> k[4],
     reporting_unit_name |-> k[5],
     infrastructure_name |-> k[6],
     aggregation_level |-> Lower(a.aggregate_to),
     src |-> {j.o.id : j \in G}]

\* fields_to_select of the aggregated plan for the group G with key k
AggregatedRecord(k, G, a) ==
    [timestamp |-> k[1],
     value |-> Avg(G),
     indicator_code |-> k[2],
     indicator_name |-> k[3],
     unit |-> k[4],
     reporting_unit_name |-> k[5],
     infrastructure_name |-> k[6],
     aggregation_level |-> a.aggregate_to,
     src |-> {j.o.id : j \in G}]

\* the rows of the query of get_timeseries_data, before ORDER BY
TimeseriesRows(store, a) ==
    LET M == TimeseriesMatches(store, a)
        field == TruncField(a)
    IN  IF field # "none"
        THEN { AggregatedRecord(k, {j \in M : TimeseriesGroupKey(j, field) = k}, a) :
                   k \in {TimeseriesGroupKey(j, field) : j \in M} }
        ELSE { RawRecord(j) : j \in M }

\* group_by_columns of get_summary_data
SummaryGroupKey(j, a) ==
    IF SummaryLocationTable(a) = "none"
    THEN <<j.d.code, j.d.name_en, j.u.abbreviation>>
    ELSE <<j.d.code, j.d.name_en, j.u.abbreviation, j.l.name, j.l.id>>

\* selection of get_summary_data for the group G with key k
SummaryRecord(k, G, a) ==
    IF SummaryLocationTable(a) = "none"
    THEN [indicator_code |-> k[1], indicator_name |-> k[2], unit |-> k[3],
          aggregated_value |-> SelectedAggFunc(a.aggregation_method, G),
          src |-> {j.o.id : j \in G}]
    ELSE [indicator_code |-> k[1], indicator_name |-> k[2], unit |-> k[3],
          aggregated_value |-> SelectedAggFunc(a.aggregation_method, G),
          location_name |-> k[4], location_id |-> k[5],
          src |-> {j.o.id : j \in G}]

\* the rows of the query of get_summary_data, before ORDER BY
SummaryRows(store, a) ==
    LET M == SummaryMatches(store, a)
    IN  { SummaryRecord(k, {j \in M : SummaryGroupKey(j, a) = k}, a) :
              k \in {SummaryGroupKey(j, a) : j \in M} }

\* ------------------------------------------------------------------ Result Shaper

\* ORDER BY the indicator code alone
TimeseriesOrderKeyCodeOnly(r) == <<CodeRank(r.indicator_code)>>

\* order_by(timestamp, IndicatorDefinition.code) / order_by(trunc_field, code)
TimeseriesOrderKey(r) == <<r.timestamp, CodeRank(r.indicator_code)>>

\* order_by(*group_by_columns[:1]): the indicator code alone
SummaryOrderKey(r) == <<CodeRank(r.indicator_code)>>

RECURSIVE LexLeq(_, _)
LexLeq(x, y) ==
    IF x = <<>> THEN TRUE
    ELSE Head(x) < Head(y) \/ (Head(x) = Head(y) /\ LexLeq(Tail(x), Tail(y)))

RECURSIVE Orderings(_, _)
\* every sequence of the rows S that ORDER BY key admits: rows that tie on the
\* key come in whatever order the store produces them
Orderings(S, key) ==
    IF S = {} THEN {<<>>}
    ELSE UNION { { <<x>> \o t : t \in Orderings(S \ {x}, key) } :
                     x \in {y \in S : \A z \in S : LexLeq(key[y], key[z])} }


\* ------------------------------------------------------------------ the engine's entry points

Response(o, r, n) == [outcome |-> o, result |-> r, store_reads |-> n]

\* an engine that answers a failed read with the empty result
FaultSwallowed(fault, responses) ==
    IF fault = "none" THEN responses ELSE {Response("ok", <<>>, 1)}

\* await self.db_session.execute(...) raises when the store fails the read: the
\* exception leaves the engine, from the catalog lookup or from the query
Faulted(fault, responses) ==
    CASE fault = "none" -> responses
      [] fault = "catalog" -> {Response("store_error", <<>>, 0)}
      [] fault = "observations" ->
             { IF r.store_reads = 0 THEN r ELSE Response("store_error", <<>>, r.store_reads) :
                   r \in responses }

\* a second query issued after the result was fetched
StoreLogReadsTwice(resp) ==
    <<"indicator_definitions">>
        \o (IF resp.store_reads = 0 THEN <<>>
            ELSE <<"indicator_timeseries", "indicator_timeseries">>)

\* the executes of one engine call: the catalog lookup, then the query
StoreLog(resp) ==
    <<"indicator_definitions">>
        \o (IF resp.store_reads = 0 THEN <<>> ELSE <<"indicator_timeseries">>)

\* an engine that raises when the query returns no row
TimeseriesResponsesNotFound(store, a) ==
    IF ResolveIds(a.indicator_definition_codes) = {}
    THEN {Response("ok", <<>>, 0)}
    ELSE LET rows == TimeseriesRows(store, a)
         IN  IF rows = {}
             THEN {Response("invalid", <<>>, 1)}
             ELSE { Response("ok", r, 1) :
                        r \in Orderings(rows, [x \in rows |-> TimeseriesOrderKey(x)]) }

\* DataService.get_timeseries_data: what a call with arguments a may answer
TimeseriesResponses(store, a) ==
    IF ResolveIds(a.indicator_definition_codes) = {}
    THEN {Response("ok", <<>>, 0)}
    ELSE LET rows == TimeseriesRows(store, a)
         IN  { Response("ok", r, 1) :
                   r \in Orderings(rows, [x \in rows |-> TimeseriesOrderKey(x)]) }

\* get_summary_data without the "if not indicator_definition_ids: return []"
SummaryResponsesNoShortCircuit(store, a) ==
    IF a.aggregation_method \notin AggFuncMap
    THEN {Response("invalid", <<>>, 0)}
    ELSE IF StoreRejects(a.aggregation_method)
    THEN {Response("store_error", <<>>, 1)}
    ELSE LET rows == SummaryRows(store, a)
         IN  { Response("ok", r, 1) :
                   r \in Orderings(rows, [x \in rows |-> SummaryOrderKey(x)]) }

\* DataService.get_summary_data: what a call with arguments a may answer
SummaryResponses(store, a) ==
    IF ResolveIds(a.indicator_definition_codes) = {}
    THEN {Response("ok", <<>>, 0)}
    ELSE IF a.aggregation_method \notin AggFuncMap
    THEN {Response("invalid", <<>>, 0)}
    ELSE IF StoreRejects(a.aggregation_method)
    THEN {Response("store_error", <<>>, 1)}
    ELSE LET rows == SummaryRows(store, a)
         IN  { Response("ok", r, 1) :
                   r \in Orderings(rows, [x \in rows |-> SummaryOrderKey(x)]) }

\* the route handlers' try / except: ValueError -> 400, any other exception -> 500
HttpStatus(o) ==
    CASE o = "ok" -> 200
      [] o = "invalid" -> 400
      [] o = "store_error" -> 500

\* ------------------------------------------------------------------ state

Arguments(op, codes, start, end, rus, infs, res, agg, method) ==
    [op |-> op,
     indicator_definition_codes |-> codes,
     start_date |-> start,
     end_date |-> end,
     reporting_unit_ids |-> rus,
     infrastructure_ids |-> infs,
     temporal_resolution_name |-> res,
     aggregate_to |-> agg,
     aggregation_method |-> method]

NoLogin == [login_identifier |-> NULLTEXT, password |-> NULLTEXT, returned |-> NULL, log |-> <<>>]
NoCreate == [pc |-> "idle", name |-> NULLTEXT, status |-> 0, before |-> {}, after |-> {}]
NoSession == [pc |-> "idle", exit |-> "none", log |-> <<>>, raised |-> "none"]
NoCall == Arguments("none", {}, 0, 0, {}, {}, NULLTEXT, NULLTEXT, NULLTEXT)
NoPrev == [outcome |-> "none", result |-> <<>>]

Init ==
    /\ indicator_timeseries = <<>>
    /\ call = NoCall
    /\ outcome = "none"
    /\ result = <<>>
    /\ store_reads = 0
    /\ status = 0
    /\ prev = NoPrev
    /\ store_fault = "none"
    /\ store_log = <<>>
    /\ sessions = [r \in 1..MaxRequests |-> NoSession]
    /\ users = <<>>
    /\ login = NoLogin
    /\ categories = {}
    /\ creates = [r \in 1..MaxRequests |-> NoCreate]

\* the preceding answer, kept when the request repeats the preceding arguments
History(a) == IF call = a THEN [outcome |-> outcome, result |-> result] ELSE NoPrev

\* A request reads the table and overwrites call, outcome, result, store_reads
\* and status: what it answers never depends on the request before it.  It is
\* therefore explored as the first request on a table or as a repetition of the
\* preceding one, which reaches the same states as any sequence of requests.
Serving(a, op) == a.op = op /\ (call.op = "none" \/ call = a)

Respond(a, resp, st) ==
    /\ call' = a
    /\ outcome' = resp.outcome
    /\ result' = resp.result
    /\ store_reads' = resp.store_reads
    /\ status' = st
    /\ prev' = History(a)
    /\ store_log' = StoreLog(resp)
    /\ UNCHANGED <<indicator_timeseries, store_fault>>
    /\ UNCHANGED outside_engine

\* a route handler raises HTTPException before it calls the engine
Reject(a, st) ==
    /\ call' = a
    /\ outcome' = "invalid"
    /\ result' = <<>>
    /\ store_reads' = 0
    /\ status' = st
    /\ prev' = History(a)
    /\ store_log' = <<>>
    /\ UNCHANGED <<indicator_timeseries, store_fault>>
    /\ UNCHANGED outside_engine

\* ------------------------------------------------------------------ actions

\* the seeding scripts fill the observation table before requests are served
InsertObservation(o) ==
    /\ call.op = "none"
    /\ Len(indicator_timeseries) < MaxObs
    /\ (o.reporting_unit_id = NULL \/ o.infrastructure_id = NULL)
    /\ indicator_timeseries' = Append(indicator_timeseries, NewObservation(o))
    /\ UNCHANGED <<call, outcome, result, store_reads, status, prev, store_fault, store_log>>
    /\ UNCHANGED outside_engine

\* the store starts failing one of the reads (connection lost, query rejected)
StoreFault(f) ==
    /\ call.op = "none"
    /\ store_fault = "none"
    /\ store_fault' = f
    /\ UNCHANGED <<indicator_timeseries, call, outcome, result, store_reads, status, prev,
                   store_log>>
    /\ UNCHANGED outside_engine

GetTimeseriesData(a) ==
    /\ Serving(a, "get_timeseries_data")
    /\ \E resp \in Faulted(store_fault, TimeseriesResponses(indicator_timeseries, a)) : Respond(a, resp, 0)

GetSummaryData(a) ==
    /\ Serving(a, "get_summary_data")
    /\ \E resp \in Faulted(store_fault, SummaryResponses(indicator_timeseries, a)) : Respond(a, resp, 0)

\* GET timeseries (api/v1/endpoints/timeseries.py)
GetTimeseriesDataPoints(a) ==
    /\ Serving(a, "get_timeseries_data_points")
    /\ IF a.reporting_unit_ids = {} /\ a.infrastructure_ids = {}
       THEN Reject(a, 400)
       ELSE \E resp \in Faulted(store_fault, TimeseriesResponses(indicator_timeseries, a)) :
                Respond(a, resp, HttpStatus(resp.outcome))

\* GET summary (app/api/v1/endpoints/summary_data.py)
GetSummaryStatistics(a) ==
    /\ Serving(a, "get_summary_statistics")
    /\ \E resp \in Faulted(store_fault, SummaryResponses(indicator_timeseries, a)) :
           Respond(a, resp, HttpStatus(resp.outcome))

\* GET /timeseries_data (app/api/v1/endpoints/financial_data.py): the window
\* is checked, then the request goes to the data service (a placeholder in
\* that file; the engine stands for it); every exception but HTTPException
\* is answered 500
GetTimeseriesDataEndpoint(a) ==
    /\ Serving(a, "get_timeseries_data_endpoint")
    /\ IF a.start_date > a.end_date
       THEN Reject(a, 400)
       ELSE \E resp \in Faulted(store_fault, TimeseriesResponses(indicator_timeseries, a)) :
                Respond(a, resp, IF resp.outcome = "ok" THEN 200 ELSE 500)


\* ------------------------------------------------------------------ inputs

\* an observation as the seeding scripts create it (id is set on insertion)
Observation(ind, ru, inf, t, v, res) ==
    [id |-> 0,
     indicator_definition_id |-> ind,
     reporting_unit_id |-> ru,
     infrastructure_id |-> inf,
     timestamp |-> t,
     value_numeric |-> v,
     value_text |-> NULLTEXT,
     temporal_resolution_id |-> res,
     quality_flag_id |-> 1]

Observed(Inds, Locs, Times, Values, Ress) ==
    { Observation(ind, loc[1], loc[2], t, v, res) :
          ind \in Inds, loc \in Locs, t \in Times, v \in Values, res \in Ress }

TimeseriesRequests(op, Codes, Windows, Rus, Infs, Ress, Aggs) ==
    { Arguments(op, c, w[1], w[2], r, i, n, g, NULLTEXT) :
          c \in Codes, w \in Windows, r \in Rus, i \in Infs, n \in Ress, g \in Aggs }

SummaryRequests(op, Codes, Windows, Rus, Infs, Methods) ==
    { Arguments(op, c, w[1], w[2], r, i, NULLTEXT, NULLTEXT, m) :
          c \in Codes, w \in Windows, r \in Rus, i \in Infs, m \in Methods }

Global == <<NULL, NULL>>
AtUnit(id) == <<id, NULL>>
AtInfrastructure(id) == <<NULL, id>>

January == <<20230101, 20230131>>
Reversed == <<20230131, 20230101>>
TwoYears == <<20230101, 20241231>>

\* ------------------------------------------------------------------ Spec: request validation

SeedV ==
    Observed({2}, {AtUnit(101), AtInfrastructure(501)}, {20230115, 20230215},
             {Float(50)}, {1})

CodesV == {{"Q_RIVER"}, {"UNKNOWN"}, {"Q_RIVER", "UNKNOWN"}}
WindowsV == {January, Reversed}
RusV == {{}, {101}}
InfsV == {{}, {501}}
AggsV == {NULLTEXT, "Monthly", "Seasonal"}
MethodsV == {"Average", "Sum", "Min", "Max", "Count", "LatestValue", "Median"}

TimeseriesRequestsV(op) ==
    TimeseriesRequests(op, CodesV, WindowsV, RusV, InfsV, {NULLTEXT}, AggsV)
SummaryRequestsV(op) ==
    SummaryRequests(op, CodesV, WindowsV, RusV, InfsV, MethodsV)

Next ==
    \/ \E o \in SeedV : InsertObservation(o)
    \/ \E a \in TimeseriesRequestsV("get_timeseries_data") : GetTimeseriesData(a)
    \/ \E a \in SummaryRequestsV("get_summary_data") : GetSummaryData(a)
    \/ \E a \in TimeseriesRequestsV("get_timeseries_data_points") : GetTimeseriesDataPoints(a)
    \/ \E a \in SummaryRequestsV("get_summary_statistics") : GetSummaryStatistics(a)
    \/ \E a \in TimeseriesRequestsV("get_timeseries_data_endpoint") : GetTimeseriesDataEndpoint(a)

Spec == Init /\ [][Next]_vars


\* ------------------------------------------------------------------ SpecLoc: location filters

SeedL ==
    Observed({2},
             {Global, AtUnit(101), AtUnit(102), AtInfrastructure(501), AtInfrastructure(502)},
             {20230115, 20230215}, {Float(50)}, {1, NULL})

RusL == {{}, {101}, {101, 102}}
InfsL == {{}, {501}}

NextLoc ==
    \/ \E o \in SeedL : InsertObservation(o)
    \/ \E a \in TimeseriesRequests("get_timeseries_data", {{"Q_RIVER"}}, {January},
                                     RusL, InfsL, {NULLTEXT, "Daily"}, {NULLTEXT, "Monthly"}) :
           GetTimeseriesData(a)
    \/ \E a \in SummaryRequests("get_summary_data", {{"Q_RIVER"}}, {January},
                                  RusL, InfsL, {"Average", "Count"}) :
           GetSummaryData(a)

SpecLoc == Init /\ [][NextLoc]_vars

\* ------------------------------------------------------------------ SpecOrder: ordering

SeedO ==
    Observed({1, 2}, {AtUnit(101), AtUnit(102)}, {20230115, 20230201}, {Float(50)}, {1})

NextOrder ==
    \/ \E o \in SeedO : InsertObservation(o)
    \/ \E a \in TimeseriesRequests("get_timeseries_data", {{"Q_RIVER", "PRECIP"}}, {TwoYears},
                                     {{}, {101, 102}}, {{}}, {NULLTEXT},
                                     {NULLTEXT, "Monthly", "Annual"}) :
           GetTimeseriesData(a)
    \/ \E a \in SummaryRequests("get_summary_data", {{"Q_RIVER", "PRECIP"}}, {TwoYears},
                                  {{}, {101, 102}}, {{}}, {"Average"}) :
           GetSummaryData(a)

SpecOrder == Init /\ [][NextOrder]_vars

\* ------------------------------------------------------------------ SpecAgg: aggregation

SeedA ==
    Observed({2}, {AtUnit(101), AtUnit(102)}, {20230115, 20230117, 20230201, 20240115},
             {Float(50), Float(100), NULLF}, {1})

NextAgg ==
    \/ \E o \in SeedA : InsertObservation(o)
    \/ \E a \in TimeseriesRequests("get_timeseries_data", {{"Q_RIVER"}}, {January, TwoYears},
                                     {{101}, {101, 102}}, {{}}, {NULLTEXT},
                                     {NULLTEXT, "Monthly", "Annual"}) :
           GetTimeseriesData(a)

SpecAgg == Init /\ [][NextAgg]_vars

\* ------------------------------------------------------------------ claims: vocabulary

EngineOps == {"get_timeseries_data", "get_summary_data"}
TimeseriesOps ==
    {"get_timeseries_data", "get_timeseries_data_points", "get_timeseries_data_endpoint"}
SummaryOps == {"get_summary_data", "get_summary_statistics"}

KnownCodes == {d.code : d \in indicator_definitions}
SomeCodeKnown == call.indicator_definition_codes \cap KnownCodes # {}

\* the observations a returned record was made from
Sources == UNION {result[k].src : k \in 1..Len(result)}

\* a record of the program, without the bookkeeping field src
Visible(r) == [f \in DOMAIN r \ {"src"} |-> r[f]]
VisibleSeq(rs) == [k \in 1..Len(rs) |-> Visible(rs[k])]

\* ------------------------------------------------------------------ C3

\* C3: when none of the supplied indicator codes is the code of an indicator
\* definition, get_timeseries_data and get_summary_data return the empty
\* sequence without raising and issue no read of the observation table.
C3_UnknownCodesShortCircuit ==
    (call.op \in EngineOps /\ ~SomeCodeKnown)
        => (outcome = "ok" /\ result = <<>> /\ store_reads = 0)

C3_Witness ==
    /\ call.op = "get_summary_data"
    /\ call.indicator_definition_codes = {"UNKNOWN"}
    /\ call.reporting_unit_ids = {}
    /\ call.infrastructure_ids = {}
    /\ call.aggregation_method = "Sum"
    /\ Len(indicator_timeseries) = MaxObs
    /\ outcome = "ok"
    /\ result = <<>>
    /\ store_reads = 0

\* ------------------------------------------------------------------ C4

EnumeratedMethods == {"Average", "Sum", "Min", "Max", "Count"}

\* C4: get_summary_data accepts a reduction method name if and only if it is
\* one of Average, Sum, Min, Max, Count; with a resolvable code, any other
\* name raises the invalid-request error and no observation is read.
C4_MethodValidated ==
    (call.op = "get_summary_data" /\ SomeCodeKnown)
        => IF call.aggregation_method \in EnumeratedMethods
           THEN outcome = "ok"
           ELSE outcome = "invalid" /\ store_reads = 0

\* ------------------------------------------------------------------ C5

\* C5: a request whose window starts strictly after it ends is answered with
\* the invalid-request signal, never with a successful result.
C5_ReversedWindowRejected ==
    (call.op \in TimeseriesOps \cup SummaryOps /\ call.start_date > call.end_date)
        => outcome = "invalid"

\* ------------------------------------------------------------------ C6

\* C6: get_timeseries_data with aggregate_to = "Seasonal" never answers with
\* records of the raw plan: it is rejected, or every record is a bucket
\* (it carries aggregation_level and none of the per-observation fields).
C6_SeasonalNeverRaw ==
    (call.op = "get_timeseries_data" /\ call.aggregate_to = "Seasonal")
        => \/ outcome = "invalid"
           \/ \A k \in 1..Len(result) :
                  /\ "aggregation_level" \in DOMAIN result[k]
                  /\ "value_text" \notin DOMAIN result[k]


\* ------------------------------------------------------------------ C1

\* the predicates of a request other than the location filter, on observation o
IndicatorRequested(o) ==
    \E d \in indicator_definitions :
        d.id = o.indicator_definition_id /\ d.code \in call.indicator_definition_codes
InWindow(o) == call.start_date <= o.timestamp /\ o.timestamp <= call.end_date
ResolutionRequested(o) ==
    call.temporal_resolution_name = NULLTEXT
        \/ \E t \in temporal_resolutions :
               t.id = o.temporal_resolution_id /\ t.name = call.temporal_resolution_name
OtherPredicates(o) == IndicatorRequested(o) /\ InWindow(o) /\ ResolutionRequested(o)

InEitherSet(o) ==
    \/ o.reporting_unit_id \in call.reporting_unit_ids
    \/ o.infrastructure_id \in call.infrastructure_ids

\* C1: when at least one of reporting_unit_ids and infrastructure_ids is not
\* empty, get_timeseries_data returns (raw plan) or reduces (aggregated plan)
\* an observation if and only if it satisfies the indicator, window and
\* resolution predicates and its reporting unit is in reporting_unit_ids or
\* its infrastructure is in infrastructure_ids.
C1_LocationUnion ==
    (/\ call.op = "get_timeseries_data"
     /\ outcome = "ok"
     /\ (call.reporting_unit_ids # {} \/ call.infrastructure_ids # {}))
        => \A o \in Observations(indicator_timeseries) :
               o.id \in Sources <=> (OtherPredicates(o) /\ InEitherSet(o))

\* both sets supplied; an observation under infrastructure 501 is returned, one
\* under reporting unit 102 (outside both sets) is not
C1_Witness ==
    /\ call.op = "get_timeseries_data"
    /\ call.reporting_unit_ids = {101}
    /\ call.infrastructure_ids = {501}
    /\ call.aggregate_to = NULLTEXT
    /\ outcome = "ok"
    /\ \E o \in Observations(indicator_timeseries) :
           o.infrastructure_id = 501 /\ o.id \in Sources
    /\ \E o \in Observations(indicator_timeseries) :
           o.reporting_unit_id = 102 /\ OtherPredicates(o) /\ o.id \notin Sources

\* ------------------------------------------------------------------ C2

\* C2: get_summary_data with both id lists supplied reduces the observations
\* of the infrastructure units in infrastructure_ids just as those of the
\* reporting units in reporting_unit_ids.
C2_SummaryUnion ==
    (/\ call.op = "get_summary_data"
     /\ outcome = "ok"
     /\ call.reporting_unit_ids # {}
     /\ call.infrastructure_ids # {})
        => \A o \in Observations(indicator_timeseries) :
               (IndicatorRequested(o) /\ InWindow(o) /\ InEitherSet(o)) => o.id \in Sources


\* ------------------------------------------------------------------ C7

\* C7: a request that repeats the arguments of the preceding request against
\* the unchanged table is answered with the same sequence of records, in the
\* same order.
C7_Deterministic ==
    (call.op \in EngineOps /\ prev.outcome # "none")
        => (outcome = prev.outcome /\ VisibleSeq(result) = VisibleSeq(prev.result))

\* ------------------------------------------------------------------ C8

Monthly == call.aggregate_to # NULLTEXT /\ Lower(call.aggregate_to) = "monthly"
Annual == call.aggregate_to # NULLTEXT /\ Lower(call.aggregate_to) = "annual"

\* C8: with start <= end and a resolvable code, the records get_timeseries_data
\* returns are sorted non-decreasing by timestamp (the bucket start in the
\* aggregated plan), and records with equal timestamp by indicator code.
C8_Sorted ==
    (/\ call.op = "get_timeseries_data"
     /\ outcome = "ok"
     /\ call.start_date <= call.end_date
     /\ SomeCodeKnown)
        => \A k \in 1..(Len(result) - 1) :
               \/ result[k].timestamp < result[k + 1].timestamp
               \/ /\ result[k].timestamp = result[k + 1].timestamp
                  /\ CodeRank(result[k].indicator_code) <= CodeRank(result[k + 1].indicator_code)

\* a raw result with two records of one day, PRECIP before Q_RIVER although
\* it was inserted after it
C8_Witness ==
    /\ call.op = "get_timeseries_data"
    /\ call.aggregate_to = NULLTEXT
    /\ outcome = "ok"
    /\ Len(result) = 2
    /\ result[1].indicator_code = "PRECIP"
    /\ result[2].indicator_code = "Q_RIVER"
    /\ result[1].timestamp = result[2].timestamp
    /\ result[1].src = {2}
    /\ result[2].src = {1}

\* ------------------------------------------------------------------ C9

Located(o) ==
    (call.reporting_unit_ids = {} /\ call.infrastructure_ids = {}) \/ InEitherSet(o)

\* the observations that satisfy every predicate of the request
Matching == {o \in Observations(indicator_timeseries) : OtherPredicates(o) /\ Located(o)}

WithValue(S) == {o \in S : o.value_numeric # NULLF}
Total(S) == SumOf([o \in S |-> o.value_numeric[1]], S)

\* v is the average of the numeric values of the observations S
IsAverageOf(v, S) ==
    IF WithValue(S) = {} THEN v = NULLF
    ELSE /\ v # NULLF
         /\ v[1] * Cardinality(WithValue(S)) = Total(WithValue(S)) * v[2]

OneIndicatorOneLocation(S) ==
    \A o, p \in S :
        /\ o.indicator_definition_id = p.indicator_definition_id
        /\ o.reporting_unit_id = p.reporting_unit_id
        /\ o.infrastructure_id = p.infrastructure_id

OneMonth(S) == \A o, p \in S : o.timestamp \div 100 = p.timestamp \div 100

\* C9: when the matching observations are those of one indicator at one
\* location and fall in one calendar month, aggregate_to = "Monthly" returns
\* exactly one record, whose value is the average of their numeric values;
\* without aggregate_to the same request returns one record per observation.
C9_MonthlyRoundTrip ==
    (/\ call.op = "get_timeseries_data"
     /\ outcome = "ok"
     /\ Matching # {}
     /\ OneIndicatorOneLocation(Matching)
     /\ OneMonth(Matching))
        => /\ call.aggregate_to = "Monthly"
               => (Len(result) = 1 /\ IsAverageOf(result[1].value, Matching))
           /\ call.aggregate_to = NULLTEXT
               => /\ Len(result) = Cardinality(Matching)
                  /\ \A o \in Matching :
                         \E k \in 1..Len(result) :
                             result[k].src = {o.id} /\ result[k].value = o.value_numeric

\* 50 on Jan 15 and 100 on Jan 17 at reporting unit 101: one record, 75, on Jan 1
C9_Witness ==
    /\ call.op = "get_timeseries_data"
    /\ call.aggregate_to = "Monthly"
    /\ call.reporting_unit_ids = {101}
    /\ Cardinality(Matching) = 2
    /\ {o.value_numeric : o \in Matching} = {Float(50), Float(100)}
    /\ {o.timestamp : o \in Matching} = {20230115, 20230117}
    /\ Len(result) = 1
    /\ result[1].value = Float(75)
    /\ result[1].timestamp = 20230101

\* ------------------------------------------------------------------ C10

ObservationById(id) == indicator_timeseries[id]

\* t is the first day of the calendar month / year of the date u
MonthStartOf(t, u) == t % 100 = 1 /\ t \div 100 = u \div 100
YearStartOf(t, u) == t % 10000 = 101 /\ t \div 10000 = u \div 10000

\* C10: in the aggregated plan every record's timestamp is the start of the
\* calendar month (Monthly) or year (Annual) of each observation reduced into
\* it, every matching observation is reduced into exactly one record, only
\* matching observations are reduced, and no record is made from nothing.
C10_Buckets ==
    (call.op = "get_timeseries_data" /\ outcome = "ok" /\ SomeCodeKnown
        /\ (Monthly \/ Annual))
        => /\ \A k \in 1..Len(result) :
                  /\ result[k].src # {}
                  /\ \A id \in result[k].src :
                         /\ ObservationById(id) \in Matching
                         /\ Monthly => MonthStartOf(result[k].timestamp, ObservationById(id).timestamp)
                         /\ Annual => YearStartOf(result[k].timestamp, ObservationById(id).timestamp)
           /\ \A o \in Matching :
                  Cardinality({k \in 1..Len(result) : o.id \in result[k].src}) = 1

\* Annual over two years: Jan 15 and Feb 1 2023 share the record of 2023-01-01
C10_Witness ==
    /\ call.op = "get_timeseries_data"
    /\ call.aggregate_to = "Annual"
    /\ {o.timestamp : o \in Matching} = {20230115, 20230201}
    /\ OneIndicatorOneLocation(Matching)
    /\ Len(result) = 1
    /\ result[1].timestamp = 20230101
    /\ result[1].src = {1, 2}

\* ------------------------------------------------------------------ SpecRes: source resolution

SeedR ==
    Observed({2}, {AtUnit(101)}, {20230115, 20230117}, {Float(50), Float(100)},
             {1, 2, NULL})

NextRes ==
    \/ \E o \in SeedR : InsertObservation(o)
    \/ \E a \in TimeseriesRequests("get_timeseries_data", {{"Q_RIVER"}}, {January},
                                     {{101}}, {{}}, {NULLTEXT, "Daily", "Monthly"},
                                     {NULLTEXT, "Monthly"}) :
           GetTimeseriesData(a)

SpecRes == Init /\ [][NextRes]_vars

\* ------------------------------------------------------------------ C11

\* the observations at the location of the observations record r was made from
SameLocation(o, r) ==
    \E id \in r.src :
        /\ o.reporting_unit_id = ObservationById(id).reporting_unit_id
        /\ o.infrastructure_id = ObservationById(id).infrastructure_id

\* the matching observations of the bucket that record r stands for
BucketOf(r) ==
    {o \in Matching :
        /\ \E d \in indicator_definitions :
               d.id = o.indicator_definition_id /\ d.code = r.indicator_code
        /\ SameLocation(o, r)
        /\ Monthly => MonthStartOf(r.timestamp, o.timestamp)
        /\ Annual => YearStartOf(r.timestamp, o.timestamp)}

\* C11: when get_timeseries_data is given temporal_resolution_name, the
\* observations it returns or reduces are exactly the matching ones whose
\* temporal resolution has that name: an observation with another resolution
\* or with none is in no raw result and in no bucket, and with aggregate_to
\* each bucket's value is the average over its observations of that
\* resolution only.
C11_ResolutionBeforeAggregation ==
    (/\ call.op = "get_timeseries_data"
     /\ outcome = "ok"
     /\ call.temporal_resolution_name # NULLTEXT)
        => /\ \A o \in Observations(indicator_timeseries) :
                  /\ o.id \in Sources <=> o \in Matching
                  /\ ~ResolutionRequested(o) => o.id \notin Sources
           /\ (Monthly \/ Annual)
                  => \A k \in 1..Len(result) :
                         IsAverageOf(result[k].value, BucketOf(result[k]))

\* January holds 50 recorded daily and 100 recorded with no resolution; the
\* Monthly bucket of the Daily observations is 50
C11_Witness ==
    /\ call.op = "get_timeseries_data"
    /\ call.temporal_resolution_name = "Daily"
    /\ call.aggregate_to = "Monthly"
    /\ \E o, p \in Observations(indicator_timeseries) :
           /\ o.temporal_resolution_id = 1 /\ o.value_numeric = Float(50)
           /\ p.temporal_resolution_id = NULL /\ p.value_numeric = Float(100)
           /\ InWindow(o) /\ InWindow(p)
    /\ Len(result) = 1
    /\ result[1].value = Float(50)

\* ------------------------------------------------------------------ SpecWin: window boundaries

FirstOfJanuary == <<20230101, 20230101>>

SeedW ==
    Observed({2}, {AtUnit(101)}, {20221231, 20230101, 20230131, 20230201},
             {Float(50), Float(100)}, {1})

NextWin ==
    \/ \E o \in SeedW : InsertObservation(o)
    \/ \E a \in TimeseriesRequests("get_timeseries_data", {{"Q_RIVER"}},
                                     {January, FirstOfJanuary}, {{101}}, {{}},
                                     {NULLTEXT}, {NULLTEXT, "Monthly"}) :
           GetTimeseriesData(a)
    \/ \E a \in SummaryRequests("get_summary_data", {{"Q_RIVER"}},
                                  {January, FirstOfJanuary}, {{}, {101}}, {{}},
                                  {"Sum", "Count"}) :
           GetSummaryData(a)

SpecWin == Init /\ [][NextWin]_vars

\* ------------------------------------------------------------------ C12

\* C12: an observation is returned by get_timeseries_data, or reduced by it or
\* by get_summary_data, if and only if it satisfies the other predicates of
\* the request and start <= timestamp <= end: an observation stamped exactly
\* at the start or exactly at the end of the window is included.
C12_WindowInclusive ==
    (call.op \in EngineOps /\ outcome = "ok")
        => \A o \in Observations(indicator_timeseries) :
               o.id \in Sources
                   <=> /\ IndicatorRequested(o) /\ ResolutionRequested(o) /\ Located(o)
                       /\ call.start_date <= o.timestamp
                       /\ o.timestamp <= call.end_date

\* one observation on the first and one on the last day of the window, both
\* summed
C12_Witness ==
    /\ call.op = "get_summary_data"
    /\ call.aggregation_method = "Sum"
    /\ {o.timestamp : o \in Observations(indicator_timeseries)}
           = {call.start_date, call.end_date}
    /\ call.start_date < call.end_date
    /\ Len(result) = 1
    /\ result[1].src = {1, 2}
    /\ result[1].aggregated_value = Float(150)

\* ------------------------------------------------------------------ SpecCat: catalog resolution

SeedC ==
    Observed({1, 2}, {AtUnit(101)}, {20230115}, {Float(50), Float(100)}, {1})

CodesC ==
    {{"Q_RIVER"}, {"UNKNOWN"}, {"Q_RIVER", "UNKNOWN"}, {"Q_RIVER", "PRECIP", "UNKNOWN"}}

NextCat ==
    \/ \E o \in SeedC : InsertObservation(o)
    \/ \E a \in TimeseriesRequests("get_timeseries_data", CodesC, {January}, {{101}}, {{}},
                                     {NULLTEXT}, {NULLTEXT, "Monthly"}) :
           GetTimeseriesData(a)
    \/ \E a \in SummaryRequests("get_summary_data", CodesC, {January}, {{}, {101}}, {{}},
                                  {"Average", "Median"}) :
           GetSummaryData(a)

SpecCat == Init /\ [][NextCat]_vars

\* ------------------------------------------------------------------ C13

\* the answers the engine may give to the arguments a on the present table
ResponsesTo(a) ==
    IF a.op = "get_timeseries_data"
    THEN TimeseriesResponses(indicator_timeseries, a)
    ELSE SummaryResponses(indicator_timeseries, a)

\* the present call, asked with its known codes only
KnownCodesOnly ==
    [call EXCEPT !.indicator_definition_codes = @ \cap KnownCodes]

PartlyKnown == SomeCodeKnown /\ call.indicator_definition_codes \ KnownCodes # {}

\* C13: when some requested codes are unknown and at least one is known, the
\* unknown codes raise no error: the answer is one that the same call with
\* only the known codes gives (same outcome, same records in the same order),
\* the observations used are the matching ones of the known codes, and every
\* record carries a known requested code.
C13_PartialResolution ==
    (call.op \in EngineOps /\ PartlyKnown)
        => /\ \E resp \in ResponsesTo(KnownCodesOnly) :
                  resp.outcome = outcome /\ resp.result = result
           /\ outcome = "ok"
                  => /\ Sources = {o.id : o \in Matching}
                     /\ \A k \in 1..Len(result) :
                            result[k].indicator_code
                                \in call.indicator_definition_codes \cap KnownCodes

\* Q_RIVER, PRECIP and an unknown code requested: a record for each known one
C13_Witness ==
    /\ call.op = "get_summary_data"
    /\ call.indicator_definition_codes = {"Q_RIVER", "PRECIP", "UNKNOWN"}
    /\ outcome = "ok"
    /\ Len(result) = 2
    /\ {result[k].indicator_code : k \in 1..2} = {"Q_RIVER", "PRECIP"}

\* ------------------------------------------------------------------ C14

\* a request the engine has no ground to refuse
ValidRequest ==
    /\ SomeCodeKnown
    /\ call.start_date <= call.end_date
    /\ call.op = "get_summary_data" => call.aggregation_method \in EnumeratedMethods

\* C14: a valid request (a resolvable code, start <= end, a supported method)
\* that no observation matches is answered with the empty sequence: no error
\* and no placeholder or null record, in the raw plan, the aggregated plan and
\* get_summary_data.
C14_EmptyMatchIsSuccess ==
    (call.op \in EngineOps /\ ValidRequest /\ Matching = {})
        => (outcome = "ok" /\ result = <<>>)

\* two observations in the table, both outside the window: Count returns no
\* record, not a record with count 0
C14_Witness ==
    /\ call.op = "get_summary_data"
    /\ call.aggregation_method = "Count"
    /\ call.indicator_definition_codes = {"Q_RIVER"}
    /\ call.start_date <= call.end_date
    /\ Len(indicator_timeseries) = MaxObs
    /\ \A o \in Observations(indicator_timeseries) : ~InWindow(o)
    /\ Matching = {}
    /\ outcome = "ok"
    /\ store_reads = 1
    /\ result = <<>>

\* ------------------------------------------------------------------ SpecSum: summary groups

SeedS ==
    Observed({1, 2}, {AtUnit(101), AtUnit(102), AtInfrastructure(501)}, {20230115},
             {Float(50), Float(100), NULLF}, {1})

NextSum ==
    \/ \E o \in SeedS : InsertObservation(o)
    \/ \E a \in SummaryRequests("get_summary_data", {{"Q_RIVER", "PRECIP"}}, {January},
                                  {{}, {101, 102}}, {{}, {501}},
                                  {"Average", "Sum", "Min", "Max", "Count"}) :
           GetSummaryData(a)

SpecSum == Init /\ [][NextSum]_vars

\* ------------------------------------------------------------------ C15

LocationSupplied == call.reporting_unit_ids # {} \/ call.infrastructure_ids # {}

\* the matching observations of the group that summary record r stands for
GroupOf(r) ==
    {o \in Matching :
        /\ \E d \in indicator_definitions :
               d.id = o.indicator_definition_id /\ d.code = r.indicator_code
        /\ LocationSupplied
               => (o.reporting_unit_id = r.location_id \/ o.infrastructure_id = r.location_id)}

\* v is the reduction named method of the numeric values of the observations S
IsReductionOf(v, method, S) ==
    CASE method = "Average" -> IsAverageOf(v, S)
      [] method = "Count" -> v = Float(Cardinality(WithValue(S)))
      [] method = "Sum" ->
             IF WithValue(S) = {} THEN v = NULLF ELSE v = Float(Total(WithValue(S)))
      [] method = "Min" ->
             IF WithValue(S) = {} THEN v = NULLF
             ELSE /\ v \in {o.value_numeric : o \in WithValue(S)}
                  /\ \A o \in WithValue(S) : v[1] <= o.value_numeric[1]
      [] method = "Max" ->
             IF WithValue(S) = {} THEN v = NULLF
             ELSE /\ v \in {o.value_numeric : o \in WithValue(S)}
                  /\ \A o \in WithValue(S) : v[1] >= o.value_numeric[1]

\* C15: get_summary_data returns at most one record per indicator when no
\* location set is supplied and at most one per (indicator, location) when one
\* is, and each record's aggregated_value is the chosen reduction (Average,
\* Sum, Min, Max, Count) of the numeric values of all the matching
\* observations of its group.
C15_OneRowPerGroup ==
    (/\ call.op = "get_summary_data"
     /\ outcome = "ok"
     /\ call.aggregation_method \in EnumeratedMethods)
        => /\ \A j, k \in 1..Len(result) :
                  j # k => \/ result[j].indicator_code # result[k].indicator_code
                           \/ /\ LocationSupplied
                              /\ result[j].location_id # result[k].location_id
           /\ \A k \in 1..Len(result) :
                  /\ GroupOf(result[k]) # {}
                  /\ result[k].src = {o.id : o \in GroupOf(result[k])}
                  /\ IsReductionOf(result[k].aggregated_value,
                                   call.aggregation_method, GroupOf(result[k]))

\* 50 and 100 of Q_RIVER at reporting unit 101: one record, Max 100
C15_Witness ==
    /\ call.op = "get_summary_data"
    /\ call.aggregation_method = "Max"
    /\ call.reporting_unit_ids = {101, 102}
    /\ call.infrastructure_ids = {}
    /\ {o.value_numeric : o \in Matching} = {Float(50), Float(100)}
    /\ OneIndicatorOneLocation(Matching)
    /\ Len(result) = 1
    /\ result[1].location_id = 101
    /\ result[1].aggregated_value = Float(100)

\* ------------------------------------------------------------------ C16

\* the location names in collation order
LocationNameOrder == <<"Blue Grand Dam", "Lower Blue", "Upper Blue">>
LocationNameRank(n) == CHOOSE i \in 1..Len(LocationNameOrder) : LocationNameOrder[i] = n

\* record r comes no later than record q in the order of the grouping columns
\* (code, name, unit, location name, location id); name and unit follow the code
GroupingColumnsLeq(r, q) ==
    \/ CodeRank(r.indicator_code) < CodeRank(q.indicator_code)
    \/ /\ r.indicator_code = q.indicator_code
       /\ \/ ~LocationSupplied
          \/ LocationNameRank(r.location_name) < LocationNameRank(q.location_name)
          \/ /\ r.location_name = q.location_name
             /\ r.location_id <= q.location_id

\* C16: the records get_summary_data returns are sorted by the grouping
\* columns in declaration order (indicator code, name, unit, then location
\* name and location id), so the records of one indicator at different
\* locations come in the order of their locations.
C16_SummaryOrdered ==
    (call.op = "get_summary_data" /\ outcome = "ok")
        => \A k \in 1..(Len(result) - 1) : GroupingColumnsLeq(result[k], result[k + 1])

\* ------------------------------------------------------------------ SpecPlan: plan selection

SeedP ==
    Observed({2}, {AtUnit(101), AtUnit(102)}, {20230115, 20230201},
             {Float(50), Float(100)}, {1})

AggsP == {NULLTEXT, "Monthly", "MONTHLY", "Annual", "Seasonal", "Weekly"}

NextPlan ==
    \/ \E o \in SeedP : InsertObservation(o)
    \/ \E a \in TimeseriesRequests("get_timeseries_data", {{"Q_RIVER"}}, {TwoYears},
                                     {{101, 102}}, {{}}, {NULLTEXT}, AggsP) :
           GetTimeseriesData(a)

SpecPlan == Init /\ [][NextPlan]_vars

\* ------------------------------------------------------------------ C17

\* the fields of a record of the program
Fields(r) == DOMAIN r \ {"src"}

PerObservationFields == {"value_text", "source_temporal_resolution", "quality_flag"}

AggregatedShape(r) ==
    "aggregation_level" \in Fields(r) /\ Fields(r) \cap PerObservationFields = {}
RawShape(r) ==
    "aggregation_level" \notin Fields(r) /\ PerObservationFields \subseteq Fields(r)

\* C17: the records of one result of get_timeseries_data all have one shape:
\* either all are aggregated records, which carry aggregation_level, equal to
\* the aggregate_to string as it was requested, and none of value_text,
\* source_temporal_resolution, quality_flag (so for Monthly and Annual), or
\* all are raw records, which carry those three and no aggregation_level.
C17_RecordShape ==
    (call.op = "get_timeseries_data" /\ outcome = "ok")
        => /\ \/ \A k \in 1..Len(result) :
                     /\ AggregatedShape(result[k])
                     /\ result[k].aggregation_level = call.aggregate_to
              \/ \A k \in 1..Len(result) : RawShape(result[k])
           /\ (Monthly \/ Annual)
                  => \A k \in 1..Len(result) : AggregatedShape(result[k])

\* "MONTHLY" requested: the bucket is labelled "MONTHLY"
C17_Witness ==
    /\ call.op = "get_timeseries_data"
    /\ call.aggregate_to = "MONTHLY"
    /\ Len(result) = 2
    /\ \A k \in 1..2 : result[k].aggregation_level = "MONTHLY"
    /\ result[1].timestamp = 20230101
    /\ result[2].timestamp = 20230201

\* ------------------------------------------------------------------ C18

\* the present call, asked without aggregate_to
AggregateToOmitted == [call EXCEPT !.aggregate_to = NULLTEXT]

\* the period start of observation o under the requested granularity
PeriodStart(o) ==
    IF Monthly THEN (o.timestamp \div 100) * 100 + 1
    ELSE (o.timestamp \div 10000) * 10000 + 101

\* the periods the matching observations fall in
Periods == {PeriodStart(o) : o \in Matching}

\* what the aggregated plan groups by, as far as a record shows it
BucketKey(r) ==
    <<r.timestamp, r.indicator_code, r.reporting_unit_name, r.infrastructure_name>>

C19_NoLocationRestriction ==
    (/\ call.op \in EngineOps
     /\ outcome = "ok"
     /\ call.reporting_unit_ids = {}
     /\ call.infrastructure_ids = {})
        => \A o \in Observations(indicator_timeseries) :
               o.id \in Sources <=> OtherPredicates(o)

\* an observation at infrastructure 502 and one at no location, both counted
C19_Witness ==
    /\ call.op = "get_summary_data"
    /\ call.aggregation_method = "Count"
    /\ call.reporting_unit_ids = {}
    /\ call.infrastructure_ids = {}
    /\ \E o, p \in Matching :
           /\ o.infrastructure_id = 502
           /\ p.reporting_unit_id = NULL /\ p.infrastructure_id = NULL
    /\ Len(result) = 1
    /\ result[1].aggregated_value = Float(2)

\* ------------------------------------------------------------------ SpecHttp: the summary entry points

\* GET /summary-data (api/v1/endpoints/data_exploration.py): the engine is
\* called outside any try / except, so whatever it raises, the ValueError of
\* an unsupported method included, leaves the handler and is answered 500
GetSummaryStatisticsExploration(a) ==
    /\ Serving(a, "data_exploration_summary_data")
    /\ \E resp \in Faulted(store_fault, SummaryResponses(indicator_timeseries, a)) :
           Respond(a, resp, IF resp.outcome = "ok" THEN 200 ELSE 500)

ExportTypes == {"export_csv_timeseries", "export_csv_summary", "export_csv_unknown"}

\* GET /export/csv (app/api/v1/endpoints/exports.py), the op naming the
\* export_type: missing parameters and an unknown export_type are answered
\* 400, the engine is called outside any try / except, and an empty result is
\* an empty CSV (cropping_patterns reads other tables and is left out)
ExportDataAsCsv(a) ==
    /\ a.op \in ExportTypes
    /\ (call.op = "none" \/ call = a)
    /\ CASE a.op = "export_csv_timeseries" ->
               IF a.reporting_unit_ids = {} /\ a.infrastructure_ids = {}
               THEN Reject(a, 400)
               ELSE \E resp \in Faulted(store_fault, TimeseriesResponses(indicator_timeseries, a)) :
                        Respond(a, resp, IF resp.outcome = "ok" THEN 200 ELSE 500)
         [] a.op = "export_csv_summary" ->
               IF a.aggregation_method = NULLTEXT
               THEN Reject(a, 400)
               ELSE \E resp \in Faulted(store_fault, SummaryResponses(indicator_timeseries, a)) :
                        Respond(a, resp, IF resp.outcome = "ok" THEN 200 ELSE 500)
         [] OTHER -> Reject(a, 400)

MethodsH == {"Average", "Median", "LatestValue"}

SummaryRequestsH(op, Methods) ==
    SummaryRequests(op, {{"Q_RIVER"}, {"UNKNOWN"}}, {January}, RusV, InfsV, Methods)

ExportRequestsH ==
    SummaryRequestsH("export_csv_summary", MethodsH \cup {NULLTEXT})
        \cup SummaryRequestsH("export_csv_unknown", {NULLTEXT})
        \cup TimeseriesRequests("export_csv_timeseries", {{"Q_RIVER"}}, {January},
                                RusV, InfsV, {NULLTEXT}, {NULLTEXT})

NextHttp ==
    \/ \E o \in SeedV : InsertObservation(o)
    \/ \E a \in SummaryRequestsH("get_summary_statistics", MethodsH) :
           GetSummaryStatistics(a)
    \/ \E a \in SummaryRequestsH("data_exploration_summary_data", MethodsH) :
           GetSummaryStatisticsExploration(a)
    \/ \E a \in ExportRequestsH : ExportDataAsCsv(a)

SpecHttp == Init /\ [][NextHttp]_vars

\* ------------------------------------------------------------------ C20

\* the entry points that forward to get_summary_data
SummaryEntryPoints ==
    {"get_summary_statistics", "data_exploration_summary_data", "export_csv_summary"}

\* C20: on every entry point that forwards to get_summary_data (the summary
\* endpoint, the data-exploration summary-data endpoint, the CSV export with
\* export_type = summary), a request with a resolvable code and a method that
\* is none of Average, Sum, Min, Max, Count is answered HTTP 400, and the
\* engine reads nothing for it.
C20_UnsupportedMethodIs400 ==
    (/\ call.op \in SummaryEntryPoints
     /\ SomeCodeKnown
     /\ call.aggregation_method # NULLTEXT
     /\ call.aggregation_method \notin EnumeratedMethods)
        => (status = 400 /\ store_reads = 0)

\* ------------------------------------------------------------------ SpecFail: store failures

StoreFaults == {"catalog", "observations"}

NextFail ==
    \/ \E o \in SeedV : InsertObservation(o)
    \/ \E f \in StoreFaults : StoreFault(f)
    \/ \E a \in TimeseriesRequests("get_timeseries_data", {{"Q_RIVER"}, {"UNKNOWN"}},
                                     {January}, RusV, InfsV, {NULLTEXT}, {NULLTEXT, "Monthly"}) :
           GetTimeseriesData(a)
    \/ \E a \in SummaryRequestsH("get_summary_data", MethodsH) : GetSummaryData(a)
    \/ \E a \in TimeseriesRequests("get_timeseries_data_points", {{"Q_RIVER"}, {"UNKNOWN"}},
                                     {January}, RusV, InfsV, {NULLTEXT}, {NULLTEXT, "Monthly"}) :
           GetTimeseriesDataPoints(a)
    \/ \E a \in SummaryRequestsH("get_summary_statistics", MethodsH) :
           GetSummaryStatistics(a)

SpecFail == Init /\ [][NextFail]_vars

\* ------------------------------------------------------------------ C21

\* the latest request went as far as the read that the store fails
FailedRead ==
    /\ call.op = "get_timeseries_data_points" => LocationSupplied
    /\ \/ store_fault = "catalog"
       \/ /\ store_fault = "observations"
          /\ SomeCodeKnown
          /\ call.op \in SummaryOps => call.aggregation_method \in EnumeratedMethods

\* the number of reads of table t by the latest request
ReadsOf(t) == Cardinality({k \in 1..Len(store_log) : store_log[k] = t})

\* C21: when the store fails a read of an engine call, the call ends in the
\* server-error signal (HTTP 500 from the timeseries and the summary
\* endpoint), never in a successful result, empty or partial, and no read is
\* attempted a second time.
C21_StoreFailureIsServerError ==
    (/\ call.op \in EngineOps \cup {"get_timeseries_data_points", "get_summary_statistics"}
     /\ FailedRead)
        => /\ outcome = "store_error"
           /\ result = <<>>
           /\ call.op \notin EngineOps => status = 500
           /\ ReadsOf("indicator_definitions") <= 1
           /\ ReadsOf("indicator_timeseries") <= 1

\* the query of a summary request with matching observations fails: 500
C21_Witness ==
    /\ call.op = "get_summary_statistics"
    /\ call.aggregation_method = "Average"
    /\ store_fault = "observations"
    /\ Matching # {}
    /\ outcome = "store_error"
    /\ status = 500
    /\ result = <<>>
    /\ store_log = <<"indicator_definitions", "indicator_timeseries">>

\* ------------------------------------------------------------------ SpecSession: get_async_db_session

Requests == 1..MaxRequests

Executes(log) == Cardinality({k \in 1..Len(log) : log[k] = "execute"})

\* how the request that holds the session ends
Exits == {"return", "exception", "cancelled"}

\* an except clause that catches nothing
CaughtNever(exit) == FALSE

\* except Exception: an exception of the handler is caught; CancelledError is a
\* BaseException and is not
CaughtByExcept(exit) == exit = "exception"

\* async with AsyncSessionFactory() as session: ... yield session
YieldSession(r) ==
    /\ sessions[r].pc = "idle"
    /\ sessions' = [sessions EXCEPT ![r].pc = "handler", ![r].log = <<"yield">>]
    /\ UNCHANGED outside_sessions

\* the route handler (or a service it calls) executes a statement on the session
ExecuteOnSession(r) ==
    /\ sessions[r].pc = "handler"
    /\ Executes(sessions[r].log) < MaxExecutes
    /\ sessions' = [sessions EXCEPT ![r].log = Append(@, "execute")]
    /\ UNCHANGED outside_sessions

\* the request ends: the handler returns, raises, or its task is cancelled; the
\* generator is resumed at its yield, with the exception if there is one
HandlerExits(r, exit) ==
    /\ sessions[r].pc = "handler"
    /\ sessions' = [sessions EXCEPT ![r].pc = "except", ![r].exit = exit]
    /\ UNCHANGED outside_sessions

\* except Exception: await session.rollback(); raise
ExceptException(r) ==
    /\ sessions[r].pc = "except"
    /\ sessions' = [sessions EXCEPT
                       ![r].pc = "finally",
                       ![r].log = IF CaughtByExcept(sessions[r].exit)
                                  THEN Append(@, "rollback") ELSE @]
    /\ UNCHANGED outside_sessions

\* finally: await session.close(); in a cancelled task the await may be
\* interrupted before the session is closed
FinallyClose(r) ==
    /\ sessions[r].pc = "finally"
    /\ \E closed \in IF sessions[r].exit = "cancelled" THEN {TRUE, FALSE} ELSE {TRUE} :
           sessions' = [sessions EXCEPT
                           ![r].pc = "aexit",
                           ![r].log = IF closed THEN Append(@, "close") ELSE @]
    /\ UNCHANGED outside_sessions

\* leaving async with: AsyncSession.__aexit__ closes the session in a shielded
\* task, then the exception in flight, if any, goes on to the caller
AsyncWithExit(r) ==
    /\ sessions[r].pc = "aexit"
    /\ sessions' = [sessions EXCEPT
                       ![r].pc = "done",
                       ![r].log = Append(@, "close"),
                       ![r].raised = IF sessions[r].exit = "return" THEN "none"
                                     ELSE sessions[r].exit]
    /\ UNCHANGED outside_sessions

\* the steps of the generator after the request has ended
Release(r) == ExceptException(r) \/ FinallyClose(r) \/ AsyncWithExit(r)

NextSession ==
    \/ \E r \in Requests : YieldSession(r)
    \/ \E r \in Requests : ExecuteOnSession(r)
    \/ \E r \in Requests, exit \in Exits : HandlerExits(r, exit)
    \/ \E r \in Requests : ExceptException(r)
    \/ \E r \in Requests : FinallyClose(r)
    \/ \E r \in Requests : AsyncWithExit(r)

\* the event loop runs a resumed generator to its end
SpecSession ==
    Init /\ [][NextSession]_vars /\ \A r \in Requests : WF_vars(Release(r))

\* ------------------------------------------------------------------ C22

Position(log, e) == CHOOSE k \in 1..Len(log) : log[k] = e /\ \A j \in 1..(k - 1) : log[j] # e
Happened(log, e) == \E k \in 1..Len(log) : log[k] = e
Closed(r) == Happened(sessions[r].log, "close")

\* what holds of the session of request r at every moment
SessionOrder(r) ==
    LET log == sessions[r].log
    IN  /\ \A j, k \in 1..Len(log) : (log[j] = "close" /\ log[k] = "execute") => k < j
        /\ (sessions[r].exit = "exception" /\ Closed(r))
               => /\ Happened(log, "rollback")
                  /\ Position(log, "rollback") < Position(log, "close")
        /\ sessions[r].pc = "done"
               => /\ Closed(r)
                  /\ sessions[r].raised
                         = (IF sessions[r].exit = "return" THEN "none" ELSE sessions[r].exit)

\* C22: every session that get_async_db_session yielded is closed after the
\* request has ended, whether the handler returned, raised or was cancelled;
\* when the handler raised, the session is rolled back before it is closed and
\* the exception goes on to the caller; nothing is executed on a closed session.
C22_SessionLifecycle ==
    /\ [](\A r \in Requests : SessionOrder(r))
    /\ \A r \in Requests : (sessions[r].exit # "none") ~> Closed(r)

\* a handler that executed a statement and raised: rollback, close, close, and
\* the exception reaches the caller
C22_Witness ==
    \E r \in Requests :
        /\ sessions[r].pc = "done"
        /\ sessions[r].exit = "exception"
        /\ sessions[r].log = <<"yield", "execute", "rollback", "close", "close">>
        /\ sessions[r].raised = "exception"

\* ------------------------------------------------------------------ C23

OneReadAfterCatalog ==
    /\ store_reads = 1
    /\ store_log = <<"indicator_definitions", "indicator_timeseries">>

\* C23 as stated: every call of get_timeseries_data or get_summary_data that
\* resolves at least one indicator code issues exactly one read of the
\* observation table, after the catalog lookup, and no other read.
C23_ExactlyOneRead ==
    (call.op \in EngineOps /\ SomeCodeKnown) => OneReadAfterCatalog

\* C23, amended: every call of get_timeseries_data, and every call of
\* get_summary_data with a supported method, that resolves at least one
\* indicator code issues exactly one read of the observation table, after the
\* catalog lookup, and no other read (a call rejected for its method reads
\* the catalog only).
C23_ExactlyOneReadOfAcceptedCall ==
    (/\ call.op \in EngineOps
     /\ SomeCodeKnown
     /\ call.op = "get_summary_data" => call.aggregation_method \in EnumeratedMethods)
        => OneReadAfterCatalog

\* a Monthly request with two matching observations: two reads in all, the
\* catalog and then the observations
C23_Witness ==
    /\ call.op = "get_timeseries_data"
    /\ call.aggregate_to = "Monthly"
    /\ Cardinality(Matching) = 2
    /\ Len(result) >= 1
    /\ store_reads = 1
    /\ store_log = <<"indicator_definitions", "indicator_timeseries">>

\* ------------------------------------------------------------------ SpecAuth: AuthService.authenticate_user

MaxUsers == 2

\* Hasher.get_password_hash / Hasher.verify_password: the hash is not the
\* password, and a password verifies against the hash made from it only
GetPasswordHash(password) == <<"bcrypt", password>>

\* a verification that accepts every password
VerifyPasswordAlways(plain_password, hashed_password) == TRUE

VerifyPassword(plain_password, hashed_password) ==
    hashed_password = GetPasswordHash(plain_password)

\* the login identifiers of the requests, and "@" in login_identifier on them
LoginIdentifiers == {"ana@wa.org", "ana", "bo", "cy@wa.org", "nobody", "no@wa.org"}
ContainsAt(s) == s \in {"ana@wa.org", "cy@wa.org", "no@wa.org"}

\* an email lookup for every identifier
TriesEmailAlways(login_identifier) == TRUE

\* if "@" in login_identifier
TriesEmail(login_identifier) == ContainsAt(login_identifier)

NoUser == [id |-> NULL]

\* UserService.get_user_by_email / get_user_by_username: the user or None
GetUserByEmail(table, email) ==
    IF \E k \in 1..Len(table) : table[k].email = email
    THEN table[CHOOSE k \in 1..Len(table) : table[k].email = email]
    ELSE NoUser

GetUserByUsername(table, username) ==
    IF \E k \in 1..Len(table) : table[k].username = username
    THEN table[CHOOSE k \in 1..Len(table) : table[k].username = username]
    ELSE NoUser

\* AuthService.authenticate_user: the id of the user it returns (NULL for
\* None) and the calls it makes, in order
AuthenticateUser(table, login_identifier, password) ==
    LET by_email == IF TriesEmail(login_identifier)
                    THEN GetUserByEmail(table, login_identifier) ELSE NoUser
        log1 == IF TriesEmail(login_identifier) THEN <<"get_user_by_email">> ELSE <<>>
        user == IF by_email = NoUser
                THEN GetUserByUsername(table, login_identifier) ELSE by_email
        log2 == IF by_email = NoUser THEN Append(log1, "get_user_by_username") ELSE log1
        log3 == Append(log2, "verify_password")
    IN  IF user = NoUser THEN [returned |-> NULL, log |-> log2]
        ELSE IF ~VerifyPassword(password, user.hashed_password)
             THEN [returned |-> NULL, log |-> log3]
        ELSE IF ~user.is_active
             THEN [returned |-> NULL, log |-> Append(log3, "is_active")]
        ELSE [returned |-> user.id, log |-> Append(log3, "is_active")]

\* a user row: email and username are unique, the hash is made from the password
User(email, username, password, is_active) ==
    [id |-> 0, email |-> email, username |-> username,
     hashed_password |-> GetPasswordHash(password), is_active |-> is_active]

\* "cy@wa.org" is the email of one user and the username of another
SeedU ==
    {User("ana@wa.org", "ana", "pw1", TRUE),
     User("ana@wa.org", "ana", "pw1", FALSE),
     User("bo@wa.org", "bo", "pw2", TRUE),
     User("cy@wa.org", "cy", "pw1", TRUE),
     User("dee@wa.org", "cy@wa.org", "pw2", TRUE)}

Passwords == {"pw1", "pw2"}

CreateUser(u) ==
    /\ login = NoLogin
    /\ Len(users) < MaxUsers
    /\ \A k \in 1..Len(users) : users[k].email # u.email /\ users[k].username # u.username
    /\ users' = Append(users, [u EXCEPT !.id = Len(users) + 1])
    /\ UNCHANGED login
    /\ UNCHANGED outside_auth

Authenticate(login_identifier, password) ==
    /\ login = NoLogin
    /\ LET done == AuthenticateUser(users, login_identifier, password)
       IN  login' = [login_identifier |-> login_identifier, password |-> password,
                     returned |-> done.returned, log |-> done.log]
    /\ UNCHANGED users
    /\ UNCHANGED outside_auth

NextAuth ==
    \/ \E u \in SeedU : CreateUser(u)
    \/ \E i \in LoginIdentifiers, p \in Passwords : Authenticate(i, p)

SpecAuth == Init /\ [][NextAuth]_vars

\* ------------------------------------------------------------------ C24

Users == {users[k] : k \in 1..Len(users)}

\* the user found for the latest login identifier: the one with that email,
\* else the one with that username
FoundByEmail == {u \in Users : u.email = login.login_identifier}
FoundByUsername == {u \in Users : u.username = login.login_identifier}
Found == IF FoundByEmail # {} THEN FoundByEmail ELSE FoundByUsername

PasswordVerifies(u) == u.hashed_password = GetPasswordHash(login.password)

CallsOf(e) == Cardinality({k \in 1..Len(login.log) : login.log[k] = e})

\* every call e of the latest authenticate_user comes before every call f
Before(e, f) ==
    \A j, k \in 1..Len(login.log) : (login.log[j] = e /\ login.log[k] = f) => j < k

CategoryNames == {"Length", "Area", "Volume"}

\* a lookup by name that finds nothing
NamedNever(table, name) == {}

\* select(UnitOfMeasurementCategoryModel).where(name == name): the rows found
Named(table, name) == {c \in table : c.name = name}

\* POST /: the request arrives (before and after keep the table as it was when
\* the request arrived and when it was answered)
PostCategory(r, name) ==
    /\ creates[r].pc \in {"idle", "done"}
    /\ creates' = [creates EXCEPT ![r] = [pc |-> "endpoint", name |-> name, status |-> 0,
                                          before |-> categories, after |-> {}]]
    /\ UNCHANGED categories
    /\ UNCHANGED outside_uom

Answer(r, st, table) ==
    creates' = [creates EXCEPT ![r].pc = "done", ![r].status = st, ![r].after = table]

\* the handler's get_category_by_name: HTTP 400 when the name exists
GetCategoryByName(r) ==
    /\ creates[r].pc = "endpoint"
    /\ IF Named(categories, creates[r].name) # {}
       THEN Answer(r, 400, categories)
       ELSE creates' = [creates EXCEPT ![r].pc = "service"]
    /\ UNCHANGED categories
    /\ UNCHANGED outside_uom

\* create_category, up to db.add: None when the name exists, which the handler
\* answers 500
CreateCategoryCheck(r) ==
    /\ creates[r].pc = "service"
    /\ IF Named(categories, creates[r].name) # {}
       THEN Answer(r, 500, categories)
       ELSE creates' = [creates EXCEPT ![r].pc = "commit"]
    /\ UNCHANGED categories
    /\ UNCHANGED outside_uom

\* create_category, db.commit(): the row is stored, or the unique constraint
\* on name raises IntegrityError, the session is rolled back and the name is
\* queried again; the handler answers 201 with whatever row comes back and 500
\* when none does
CreateCategoryCommit(r) ==
    /\ creates[r].pc = "commit"
    /\ LET name == creates[r].name
           stored == IF Named(categories, name) = {}
                     THEN categories \cup {[id |-> Cardinality(categories) + 1, name |-> name]}
                     ELSE categories
       IN  /\ categories' = stored
           /\ Answer(r, IF Named(stored, name) # {} THEN 201 ELSE 500, stored)
    /\ UNCHANGED outside_uom

NoneInFlight == \A r \in Requests : creates[r].pc \in {"idle", "done"}

\* requests that arrive while another is being served
NextUom ==
    \/ \E r \in Requests, name \in CategoryNames : PostCategory(r, name)
    \/ \E r \in Requests : GetCategoryByName(r)
    \/ \E r \in Requests : CreateCategoryCheck(r)
    \/ \E r \in Requests : CreateCategoryCommit(r)

SpecUom == Init /\ [][NextUom]_vars

\* requests that arrive one after the other
NextUomSeq ==
    \/ \E r \in Requests, name \in CategoryNames : NoneInFlight /\ PostCategory(r, name)
    \/ \E r \in Requests : GetCategoryByName(r)
    \/ \E r \in Requests : CreateCategoryCheck(r)
    \/ \E r \in Requests : CreateCategoryCommit(r)

SpecUomSeq == Init /\ [][NextUomSeq]_vars

\* ------------------------------------------------------------------ C25

NamesOf(table) == {c.name : c \in table}

UniqueNames == \A c, e \in categories : c.name = e.name => c = e

\* C25: no two stored categories have the same name; a create request whose
\* name is stored already is answered 400 and leaves the table as it was; a
\* create request with a new name is answered 201 and adds exactly one
\* category, with that name (requests served one after the other).
C25_CategoryNamesUnique ==
    /\ UniqueNames
    /\ \A r \in Requests :
           creates[r].pc = "done"
               => IF creates[r].name \in NamesOf(creates[r].before)
                  THEN creates[r].status = 400 /\ creates[r].after = creates[r].before
                  ELSE /\ creates[r].status = 201
                       /\ \E c \in creates[r].after \ creates[r].before :
                              /\ c.name = creates[r].name
                              /\ creates[r].after = creates[r].before \cup {c}

\* "Area" created by one request (201) and refused to the next (400)
C25_Witness ==
    \E r, q \in Requests :
        /\ creates[r].pc = "done" /\ creates[q].pc = "done"
        /\ creates[r].name = "Area" /\ creates[q].name = "Area"
        /\ creates[r].status = 201
        /\ creates[q].status = 400
        /\ creates[q].before = creates[r].after
        /\ creates[q].after = creates[q].before
        /\ NamesOf(categories) = {"Area"}

\* ------------------------------------------------------------------ C30

\* C30: of the create requests for one name that was not stored when they
\* arrived, whatever their interleaving, at most one category with that name
\* is stored and at most one request is answered 201: a request whose commit
\* hit the unique constraint is not answered as having created the category.
C30_OneCreatedPerName ==
    /\ UniqueNames
    /\ \A r, q \in Requests :
           (/\ r # q
            /\ creates[r].pc = "done" /\ creates[q].pc = "done"
            /\ creates[r].name = creates[q].name
            /\ creates[r].name \notin NamesOf(creates[r].before)
            /\ creates[q].name \notin NamesOf(creates[q].before))
               => ~(creates[r].status = 201 /\ creates[q].status = 201)

\* ------------------------------------------------------------------ C26

\* C26: get_summary_data raises the invalid-request error for every method
\* name outside Average, Sum, Min, Max, Count, whatever the other arguments
\* are, also when none of the supplied indicator codes resolves (it does not
\* return the empty sequence then).
C26_MethodValidatedFirst ==
    (call.op = "get_summary_data" /\ call.aggregation_method \notin EnumeratedMethods)
        => outcome = "invalid"

\* ------------------------------------------------------------------ SpecRaw: the joins of the raw plan

Unflagged(o) == [o EXCEPT !.quality_flag_id = NULL]

\* January observations of both indicators at a reporting unit, at an
\* infrastructure and at no location, with resolution and quality flag or with
\* neither, and one February observation
SeedJ ==
    Observed({1, 2}, {Global, AtUnit(101), AtInfrastructure(501)}, {20230115}, {Float(50)}, {1})
        \cup { Unflagged(o) :
                   o \in Observed({1, 2}, {Global, AtUnit(101), AtInfrastructure(501)},
                                  {20230115}, {Float(50)}, {NULL}) }
        \cup Observed({2}, {AtUnit(101)}, {20230215}, {Float(50)}, {1})

NextRaw ==
    \/ \E o \in SeedJ : InsertObservation(o)
    \/ \E a \in TimeseriesRequests("get_timeseries_data", {{"Q_RIVER"}, {"Q_RIVER", "PRECIP"}},
                                     {January}, {{}, {101}}, {{}, {501}},
                                     {NULLTEXT, "Daily"}, {NULLTEXT}) :
           GetTimeseriesData(a)

SpecRaw == Init /\ [][NextRaw]_vars

\* ------------------------------------------------------------------ C27

RecordsOf(o) == {k \in 1..Len(result) : result[k].src = {o.id}}

\* C27: get_timeseries_data without aggregation returns exactly one record
\* per matching observation: as many records as observations that satisfy
\* the predicates of the request, each matching observation in one record
\* and each record made from one matching observation, also for observations
\* without unit, location, resolution or quality flag.
C27_OneRecordPerObservation ==
    (call.op = "get_timeseries_data" /\ outcome = "ok" /\ call.aggregate_to = NULLTEXT)
        => /\ Len(result) = Cardinality(Matching)
           /\ \A o \in Matching : Cardinality(RecordsOf(o)) = 1
           /\ \A k \in 1..Len(result) : \E o \in Matching : result[k].src = {o.id}

\* two matching observations, one of them without unit, location, resolution
\* and quality flag: two records
C27_Witness ==
    /\ call.op = "get_timeseries_data"
    /\ call.aggregate_to = NULLTEXT
    /\ call.reporting_unit_ids = {}
    /\ call.infrastructure_ids = {}
    /\ call.temporal_resolution_name = NULLTEXT
    /\ outcome = "ok"
    /\ Cardinality(Matching) = 2
    /\ Len(result) = 2
    /\ \E o \in Matching :
           /\ o.indicator_definition_id = 2
           /\ o.reporting_unit_id = NULL /\ o.infrastructure_id = NULL
           /\ o.temporal_resolution_id = NULL /\ o.quality_flag_id = NULL
           /\ \E k \in 1..Len(result) :
                  /\ result[k].src = {o.id}
                  /\ result[k].unit = NULLTEXT
                  /\ result[k].quality_flag = NULLTEXT
                  /\ result[k].source_temporal_resolution = NULLTEXT

\* ------------------------------------------------------------------ C28

SourcesOf(rec) == {o \in Observations(indicator_timeseries) : o.id \in rec.src}

OneLocation(S) ==
    \A o, p \in S :
        /\ o.reporting_unit_id = p.reporting_unit_id
        /\ o.infrastructure_id = p.infrastructure_id

\* C28: every record of the aggregated plan of get_timeseries_data averages
\* observations of one location: observations at different reporting units
\* or at different infrastructures are never reduced into one record, also
\* when the two locations have the same display name.
C28_OneLocationPerRecord ==
    (call.op = "get_timeseries_data" /\ outcome = "ok" /\ call.aggregate_to \in {"Monthly", "Annual"})
        => \A k \in 1..Len(result) : OneLocation(SourcesOf(result[k]))

====
